---- MODULE Spec2Model ----
(***************************************************************************)
(* Model of woolel/tag-farm-app.                                           *)
(*                                                                         *)
(*   src/embed.py  build_database: ingestion of a markdown document into   *)
(*                 the DuckDB table farm_info (segment, embed, buffer,     *)
(*                 flush, index); extract_smart_tags_optimized: the tag    *)
(*                 dictionary and its patterns.                            *)
(*   src/app.py    the Streamlit query script: cached model and            *)
(*                 connection, query validation, cosine ranking.           *)
(*                                                                         *)
(* Text is a sequence of characters; a character is a one-character        *)
(* string, except "NL" (line feed), "MOK" and "CHA" (the two Hangul        *)
(* syllables of the table-of-contents marker).                             *)
(***************************************************************************)
EXTENDS Integers, Sequences, FiniteSets, TLC

\* ------------------------------------------------------------------------
\* Bounds of the model
\* ------------------------------------------------------------------------

\* Delimited sections following the preamble of a source document.
MaxSections == 2

\* Largest embedding batch size explored besides the configured one.
MaxBatchSize == 2

\* Largest flush threshold explored besides the configured one.
MaxInsertBatch == 2

\* ------------------------------------------------------------------------
\* Configuration of src/embed.py
\* ------------------------------------------------------------------------

BATCH_SIZE == 1

DB_INSERT_BATCH == 50

\* The batch sizes a run may be configured with: the shipped one and the
\* small ones up to the bound.
BatchSizes == {BATCH_SIZE} \cup (1..MaxBatchSize)

\* The flush thresholds a run may be configured with.
InsertBatches == {DB_INSERT_BATCH} \cup (1..MaxInsertBatch)

\* Output dimensions the embedding backend may report (bge-m3 is 1024,
\* earlier revisions of the model choice were 768).
Dims == {768, 1024}

None == "none"

\* ------------------------------------------------------------------------
\* Text helpers (Python str methods and the re module, on character
\* sequences)
\* ------------------------------------------------------------------------

Digits == {"0", "1", "2", "3", "4", "5", "6", "7", "8", "9"}

DigitVal(c) ==
    CASE c = "0" -> 0 [] c = "1" -> 1 [] c = "2" -> 2 [] c = "3" -> 3
      [] c = "4" -> 4 [] c = "5" -> 5 [] c = "6" -> 6 [] c = "7" -> 7
      [] c = "8" -> 8 [] c = "9" -> 9

\* \s of the re module, for the characters of the model.
IsSpace(c) == c \in {" ", "NL"}

\* int(s) for a string of decimal digits.
RECURSIVE ToInt(_)
ToInt(s) ==
    IF s = <<>> THEN 0
    ELSE 10 * ToInt(SubSeq(s, 1, Len(s) - 1)) + DigitVal(s[Len(s)])

\* s[i:] of Python, for a 1-based i.
From(s, i) == SubSeq(s, i, Len(s))

\* str.startswith at position i (1-based): s[i-1:].startswith(p).
MatchAt(s, i, p) ==
    /\ i + Len(p) - 1 <= Len(s)
    /\ \A k \in 1..Len(p) : s[i + k - 1] = p[k]

StartsWith(s, p) == MatchAt(s, 1, p)

\* p in s
Contains(s, p) == \E i \in 1..(Len(s) + 1) : MatchAt(s, i, p)

RECURSIVE LStrip(_)
LStrip(s) ==
    IF s # <<>> /\ IsSpace(s[1]) THEN LStrip(Tail(s)) ELSE s

RECURSIVE RStrip(_)
RStrip(s) ==
    IF s # <<>> /\ IsSpace(s[Len(s)])
    THEN RStrip(SubSeq(s, 1, Len(s) - 1))
    ELSE s

\* str.strip()
Strip(s) == RStrip(LStrip(s))

\* Position of the first line feed of s, or Len(s) + 1.
RECURSIVE FirstNL(_, _)
FirstNL(s, i) ==
    IF i > Len(s) \/ s[i] = "NL" THEN i ELSE FirstNL(s, i + 1)

\* s.split('\n')[0]
FirstLine(s) == SubSeq(s, 1, FirstNL(s, 1) - 1)

\* "\n".join(s.split('\n')[1:])
RestLines(s) == From(s, FirstNL(s, 1) + 1)

\* End of the whitespace run that starts at position i.
RECURSIVE SkipSpace(_, _)
SkipSpace(s, i) ==
    IF i <= Len(s) /\ IsSpace(s[i]) THEN SkipSpace(s, i + 1) ELSE i

\* The position just after a match of \n#\s*(?=\[) that starts at i, or 0
\* when the pattern does not match there.  \s* is greedy and "[" is not
\* whitespace, so the only candidate is the whole whitespace run.
DelimEnd(s, i) ==
    IF MatchAt(s, i, <<"NL", "#">>)
    THEN LET j == SkipSpace(s, i + 2)
         IN  IF j <= Len(s) /\ s[j] = "[" THEN j ELSE 0
    ELSE 0

\* re.split(r'\n#\s*(?=\[)', data): the pieces between the non-overlapping
\* matches, found left to right; start is where the current piece began.
RECURSIVE SplitFrom(_, _, _)
SplitFrom(s, start, i) ==
    IF i > Len(s) THEN << SubSeq(s, start, Len(s)) >>
    ELSE IF DelimEnd(s, i) # 0
         THEN << SubSeq(s, start, i - 1) >>
                 \o SplitFrom(s, DelimEnd(s, i), DelimEnd(s, i))
         ELSE SplitFrom(s, start, i + 1)

RegexSplit(data) == SplitFrom(data, 1, 1)

\* re.search(r'\[(\d{4})-(\d{2})', header): whether the pattern matches at
\* position i.
DateAt(s, i) ==
    /\ i + 7 <= Len(s)
    /\ s[i] = "["
    /\ \A k \in 1..4 : s[i + k] \in Digits
    /\ s[i + 5] = "-"
    /\ \A k \in 6..7 : s[i + k] \in Digits

DatePositions(s) == { i \in 1..Len(s) : DateAt(s, i) }

\* The leftmost match as <<year, month>>, or None.
DateMatch(s) ==
    IF DatePositions(s) = {} THEN None
    ELSE LET i == CHOOSE p \in DatePositions(s) :
                      \A r \in DatePositions(s) : p <= r
         IN  << ToInt(SubSeq(s, i + 1, i + 4)), ToInt(SubSeq(s, i + 6, i + 7)) >>

\* The table-of-contents marker of line 129, "MOK CHA" with a space between.
TocMarker == << "MOK", " ", "CHA" >>


\* ------------------------------------------------------------------------
\* Source documents
\* ------------------------------------------------------------------------

\* "[2024-05] a\nb": a dated section with a body line.
SecOk == << "[", "2", "0", "2", "4", "-", "0", "5", "]", " ", "a", "NL", "b" >>

\* "[2024-13] a": a date token whose month is out of range.
SecMonth13 == << "[", "2", "0", "2", "4", "-", "1", "3", "]", " ", "a" >>

\* "[2024-01] <toc marker>": the table of contents, dated.
SecToc == << "[", "2", "0", "2", "4", "-", "0", "1", "]", " " >> \o TocMarker

\* "[2024-5] a": a bracket that is no [YYYY-MM token.
SecNoDate == << "[", "2", "0", "2", "4", "-", "5", "]", " ", "a" >>

SectionTexts == { SecOk, SecMonth13, SecToc, SecNoDate }

\* What precedes the first delimiter: nothing, a title line, or a first
\* section that opens the file with no line feed before it ("# [2024-06] c",
\* and "# [2024-00] c" with a month out of range).
PreEmpty == << >>

PreTitle == << "t", "NL" >>

PreHeader == << "#", " ", "[", "2", "0", "2", "4", "-", "0", "6", "]", " ", "c" >>

PreMonth00 == << "#", " ", "[", "2", "0", "2", "4", "-", "0", "0", "]", " ", "c" >>

Preambles == { PreEmpty, PreTitle, PreHeader, PreMonth00 }

\* "\n# " before every delimited section.
RECURSIVE JoinSections(_)
JoinSections(secs) ==
    IF secs = <<>> THEN <<>>
    ELSE << "NL", "#", " " >> \o Head(secs) \o JoinSections(Tail(secs))

SectionLists == UNION { [1..n -> SectionTexts] : n \in 0..MaxSections }

Documents == { p \o JoinSections(ss) : p \in Preambles, ss \in SectionLists }

\* ------------------------------------------------------------------------
\* State
\* ------------------------------------------------------------------------

VARIABLES
    \* --- environment and configuration
    batch_size,          \* BATCH_SIZE of the run
    insert_batch,        \* DB_INSERT_BATCH of the run
    backend_dim,         \* output dimension of the embedding model
    store,               \* farming_granular.duckdb: [dim, rows, index];
                         \* dim = 0 while the table farm_info does not exist
    \* --- build_database (src/embed.py)
    pc,                  \* position in build_database
    embedding_dimension, \* local of line 100, 0 before
    con,                 \* "none", "open", "closed"
    raw_sections,        \* local of line 113
    idx,                 \* 1-based position of the for loop of line 121
    batch_texts,
    batch_meta,
    buffer_rows,
    log,                 \* what was printed, oldest first
    \* --- history (not program state)
    submitted,           \* the buffers handed to executemany, oldest first
    embedded,            \* sections whose row was appended to buffer_rows
    dropped,             \* sections of a batch whose encode raised
    \* --- the query script (src/app.py)
    model_cache,         \* st.cache_resource entry of load_model: TRUE when set
    con_cache,           \* entry of get_db_connection: "unset", "open", "none"
    model_loads,         \* times the body of load_model ran
    db_connects,         \* times the body of get_db_connection ran
    runs,                \* executions of the script so far
    query,               \* the text input of the last execution
    ui,                  \* what the last execution displayed
    results,             \* ids of the rows it displayed, in order
    encode_calls,        \* calls of model.encode by the script
    sql_calls,           \* ranking statements sent to the store
    read_only,           \* read_only of the connection of line 26, once opened
    \* --- tag extraction (src/embed.py)
    tag_config,          \* the dictionary of the process: "shipped", or the
                         \* category whose keyword list is emptied
    tag_text,            \* argument of extract_smart_tags_optimized
    extracted            \* its return value, None before the call

envVars == << batch_size, insert_batch, backend_dim, store >>

runVars == << pc, embedding_dimension, con, raw_sections, idx,
              batch_texts, batch_meta, buffer_rows, log >>

histVars == << submitted, embedded, dropped >>

appVars == << model_cache, con_cache, model_loads, db_connects, runs, query,
              ui, results, encode_calls, sql_calls, read_only >>

tagVars == << tag_config, tag_text, extracted >>

vars == << envVars, runVars, histVars, appVars, tagVars >>

\* ------------------------------------------------------------------------
\* Tag dictionary and patterns of src/embed.py
\*
\* A Hangul syllable is written as the romanisation of its initial, medial
\* and final jamo; the silent initial is written ' so that no syllable
\* reads like an ASCII letter.  A keyword is the sequence of its characters.
\* ------------------------------------------------------------------------

\* Longest text handed to tag extraction.
MaxTextLen == 3

\* TAG_SETS in the order of the source (a dict iterates in that order).
TAG_SETS ==
    <<
      [ category |-> "crop", tags |-> <<
          << "BYEO" >>, << "BO", "RI" >>, << "MIL" >>, << "KONG" >>,
          << "'OK", "SU", "SU" >>, << "GAM", "JA" >>,
          << "GO", "GU", "MA" >>, << "GO", "CHU" >>, << "BAE", "CHU" >>,
          << "MU" >>, << "MA", "NEUL" >>, << "'YANG", "PA" >>,
          << "'O", "'I" >>, << "TO", "MA", "TO" >>, << "TTAL", "GI" >>,
          << "SU", "BAK" >>, << "BOK", "SUNG", "'A" >>, << "SA", "GWA" >>,
          << "BAE" >>, << "PO", "DO" >>, << "GAM" >>, << "'IN", "SAM" >>,
          << "'O", "MI", "JA" >>, << "KKAE" >>, << "SO" >>,
          << "DWAE", "JI" >>, << "DALK" >>, << "KKUL", "BEOL" >>
        >> ],
      [ category |-> "task", tags |-> <<
          << "PA", "JONG" >>, << "'YUK", "MYO" >>, << "JEONG", "SIK" >>,
          << "'I", "'ANG" >>, << "MUL", "GWAN", "RI" >>, << "BI", "RYO" >>,
          << "JE", "CHO" >>, << "JEON", "JEONG" >>, << "JEOK", "GWA" >>,
          << "BANG", "JE" >>, << "SU", "HWAK" >>, << "GEON", "JO" >>,
          << "JEO", "JANG" >>, << "JONG", "JA", "SIN", "CHEONG" >>,
          << "BANG", "'YEOK" >>, << "NONG", "GI", "GYE", "JEOM", "GEOM" >>,
          << "'YO", "'YAK" >>
        >> ],
      [ category |-> "env", tags |-> <<
          << "GI", "SANG", "JEON", "MANG" >>, << "TAE", "PUNG" >>,
          << "JANG", "MA" >>, << "GA", "MUM" >>, << "POK", "'YEOM" >>,
          << "DONG", "HAE" >>, << "NAENG", "HAE" >>,
          << "JIB", "JUNG", "HO", "'U" >>, << "'IL", "JO", "RYANG" >>,
          << "JEO", "SU", "'YUL" >>, << "SI", "SEOL", "HA", "'U", "SEU" >>,
          << "HWA", "JAE", "'YE", "BANG" >>,
          << "'WOL", "DONG", "GWAN", "RI" >>
        >> ],
      [ category |-> "pest", tags |-> <<
          << "TAN", "JEO", "BYEONG" >>, << "DO", "'YEOL", "BYEONG" >>,
          << "HUIN", "GA", "RU", "BYEONG" >>,
          << "GWA", "SU", "HWA", "SANG", "BYEONG" >>,
          << "JIN", "DIS", "MUL" >>, << "'EUNG", "'AE" >>,
          << "CHONG", "CHAE", "BEOL", "RE" >>, << "MYEOL", "GU" >>,
          << "GU", "JE", "'YEOK" >>, << "A", "I" >>, << "A", "S", "F" >>
        >> ],
      [ category |-> "admin", tags |-> <<
          << "P", "L", "S" >>, << "BI", "RYO" >>,
          << "BO", "GEUB", "JONG" >>, << "JAE", "HAE", "BO", "HEOM" >>,
          << "SI", "BEOM", "SA", "'EOB" >>, << "NONG", "'YAK" >>
        >> ]
    >>

\* The optional particle of the one-character pattern: one syllable of
\* this list, or nothing.
PARTICLES ==
    <<
      "'EUN", "NEUN", "'I", "GA", "'EUL", "REUL", "'UI", "'WA", "GWA",
      "DO", "RO", "'E", "SEO"
    >>

\* The Hangul syllables of the model in increasing code point: those of
\* TAG_SETS and PARTICLES, and "MI", "MOK", "CHA".
Syllables ==
    <<
      "GA", "GAM", "GEON", "GEOM", "GYE", "GO", "GWA", "GWAN", "GU",
      "GEUB", "GI", "KKAE", "KKUL", "NAENG", "NONG", "NEUN", "NEUL",
      "DALK", "DO", "DONG", "DWAE", "DIS", "TTAL", "RYANG", "RE", "RO",
      "RYO", "RU", "REUL", "RI", "MA", "MANG", "MYEOL", "MOK", "MYO", "MU",
      "MUL", "MUM", "MI", "MIL", "BAK", "BANG", "BAE", "BEOL", "BEOM",
      "BYEO", "BYEONG", "BO", "BOK", "BI", "SA", "SAM", "SANG", "SEO",
      "SEOL", "SO", "SU", "SUNG", "SEU", "SI", "SIK", "SIN", "'A", "'ANG",
      "'AE", "'YAK", "'YANG", "'EOB", "'E", "'YEOK", "'YEOL", "'YEOM",
      "'YE", "'O", "'OK", "'WA", "'YO", "'U", "'WOL", "'YUK", "'YUL",
      "'EUN", "'EUL", "'EUNG", "'UI", "'I", "'IN", "'IL", "JA", "JANG",
      "JAE", "JEO", "JEOK", "JEON", "JEOM", "JEONG", "JE", "JO", "JONG",
      "JUNG", "JI", "JIN", "JIB", "CHA", "CHAE", "CHEONG", "CHO", "CHONG",
      "CHU", "KONG", "TAN", "TAE", "TO", "PA", "PO", "POK", "PUNG", "HA",
      "HAE", "HEOM", "HO", "HWA", "HWAK", "HUIN"
    >>

\* The ASCII characters of keywords and texts, in increasing code point.
AsciiChars == << " ", "A", "F", "I", "L", "P", "S" >>

\* The characters ordered as Python orders them (by code point).
CodePoints == AsciiChars \o Syllables

\* [U+AC00-U+D7A3] of the lookbehind and lookahead.
IsHangul(c) == \E k \in 1..Len(Syllables) : Syllables[k] = c

\* TAG_SETS.items() of a dictionary in which one category lists nothing.
WithoutTags(ts, category) ==
    [ k \in 1..Len(ts) |->
        IF ts[k].category = category
        THEN [ category |-> category, tags |-> <<>> ]
        ELSE ts[k] ]

\* The dictionaries a process may be configured with: the shipped one, and
\* the shipped one with the keyword list of one category emptied, for the
\* category whose pattern has two alternatives ("crop") and for one whose
\* pattern has a single alternative ("env").
TagConfigs == { "shipped", "crop", "env" }

\* TAG_SETS.items() of the process.
tag_sets ==
    IF tag_config = "shipped" THEN TAG_SETS ELSE WithoutTags(TAG_SETS, tag_config)

\* The characters of the texts handed to extraction: one-character
\* keywords, a particle, the second syllable of a two-syllable keyword, a
\* syllable of no keyword, and a blank.
TextChars == { "SO", "MI", "NEUN", "BAE", "CHU", "BI", "RYO", " " }

Texts == UNION { [1..n -> TextChars] : n \in 0..MaxTextLen }

\* Lines 32-33: the keywords of one character, and the longer ones, in the
\* order of the list.
one_char_tags(tags) == SelectSeq(tags, LAMBDA t : Len(t) = 1)

\* The longer keywords, taken without the test of their length.
multi_char_tags_Unfiltered(tags) == tags

multi_char_tags(tags) == SelectSeq(tags, LAMBDA t : Len(t) > 1)

\* Lines 34-42: the pattern of one category, as the sequence of its
\* alternatives; each alternative has one capture group.  The empty
\* sequence stands for None.
Compile(tags) ==
    LET ones == one_char_tags(tags)
        multis == multi_char_tags(tags)
    IN  (IF ones # <<>>
         THEN << [ kind |-> "one_char", tags |-> ones ] >>
         ELSE <<>>)
        \o
        (IF multis # <<>>
         THEN << [ kind |-> "multi_char", tags |-> multis ] >>
         ELSE <<>>)

\* COMPILED_PATTERNS.items() for a dictionary.
COMPILED_PATTERNS(ts) ==
    [ k \in 1..Len(ts) |->
        [ category |-> ts[k].category, pattern |-> Compile(ts[k].tags) ] ]

\* (?<![U+AC00-U+D7A3]) at position i.
NotAfterHangul(text, i) == i = 1 \/ ~IsHangul(text[i - 1])

\* (?![U+AC00-U+D7A3]) at position i.
NotBeforeHangul(text, i) == i > Len(text) \/ ~IsHangul(text[i])

\* The optional group of PARTICLES matches one syllable at position i.
ParticleAt(text, i) ==
    i <= Len(text) /\ \E k \in 1..Len(PARTICLES) : PARTICLES[k] = text[i]

\* The one-character alternative without its lookbehind.
OneCharEnd_NoLookbehind(text, i, tags) ==
    IF \E k \in 1..Len(tags) : tags[k] = << text[i] >>
    THEN IF ParticleAt(text, i + 1) /\ NotBeforeHangul(text, i + 2)
         THEN i + 2
         ELSE IF NotBeforeHangul(text, i + 1) THEN i + 1 ELSE 0
    ELSE 0

\* Line 35: the one-character alternative tried at position i.  The result
\* is the position after the match, 0 when it does not match.  The particle
\* is taken when the lookahead holds after it (the optional group is
\* greedy), else the lookahead is tried right after the keyword.
OneCharEnd(text, i, tags) ==
    IF NotAfterHangul(text, i) /\ \E k \in 1..Len(tags) : tags[k] = << text[i] >>
    THEN IF ParticleAt(text, i + 1) /\ NotBeforeHangul(text, i + 2)
         THEN i + 2
         ELSE IF NotBeforeHangul(text, i + 1) THEN i + 1 ELSE 0
    ELSE 0

\* Line 37: the keyword the multi-character alternative matches at
\* position i: the first of the list that the text continues with; 0 when
\* there is none.
MultiIndex(text, i, tags) ==
    IF \E k \in 1..Len(tags) : MatchAt(text, i, tags[k])
    THEN CHOOSE k \in 1..Len(tags) :
            /\ MatchAt(text, i, tags[k])
            /\ \A j \in 1..(k - 1) : ~MatchAt(text, i, tags[j])
    ELSE 0

\* One alternative tried at position i: the position after the match (0
\* without a match) and what its group captured.
AlternativeAt(text, i, alt) ==
    IF alt.kind = "one_char"
    THEN [ end |-> OneCharEnd(text, i, alt.tags), group |-> << text[i] >> ]
    ELSE LET k == MultiIndex(text, i, alt.tags)
         IN  IF k = 0
             THEN [ end |-> 0, group |-> <<>> ]
             ELSE [ end |-> i + Len(alt.tags[k]), group |-> alt.tags[k] ]

\* The alternatives of the pattern tried at position i, in their order.
AlternativesAt(text, i, pattern) ==
    [ a \in 1..Len(pattern) |-> AlternativeAt(text, i, pattern[a]) ]

\* The first alternative of the pattern that matches at position i, 0 when
\* none does.
FirstAlternative(tried) ==
    IF \E a \in 1..Len(tried) : tried[a].end > 0
    THEN CHOOSE a \in 1..Len(tried) :
            /\ tried[a].end > 0
            /\ \A b \in 1..(a - 1) : tried[b].end = 0
    ELSE 0

\* What findall reports for a match of alternative a: with one group in the
\* pattern the captured string, with several the tuple of all groups, the
\* groups of the other alternatives being empty strings.
FindallItem(pattern, a, group) ==
    IF Len(pattern) = 1
    THEN [ is_tuple |-> FALSE, value |-> group ]
    ELSE [ is_tuple |-> TRUE,
           value |-> [ b \in 1..Len(pattern) |-> IF b = a THEN group ELSE <<>> ] ]

\* Line 66: pattern.findall(text) from position i on: the matches from left
\* to right, each search resuming where the last match ended.
RECURSIVE FindAll(_, _, _)
FindAll(text, i, pattern) ==
    IF i > Len(text) THEN <<>>
    ELSE LET tried == AlternativesAt(text, i, pattern)
             a == FirstAlternative(tried)
         IN  IF a = 0
             THEN FindAll(text, i + 1, pattern)
             ELSE << FindallItem(pattern, a, tried[a].group) >>
                  \o FindAll(text, tried[a].end, pattern)

\* bool(match) of line 67.
Truthy(item) == item.value # <<>>

\* Line 67: next(filter(None, match), '').  Iterating a tuple yields its
\* groups, the first non-empty one is taken; iterating a string yields its
\* characters, the first one is taken.
FirstTruthy(item) ==
    IF item.is_tuple
    THEN IF \E b \in 1..Len(item.value) : item.value[b] # <<>>
         THEN item.value[CHOOSE b \in 1..Len(item.value) :
                            /\ item.value[b] # <<>>
                            /\ \A c \in 1..(b - 1) : item.value[c] = <<>>]
         ELSE <<>>
    ELSE IF item.value = <<>> THEN <<>> ELSE << item.value[1] >>

\* The position of a character in the order of code points.
CodePoint(c) == CHOOSE k \in 1..Len(CodePoints) : CodePoints[k] = c

\* a < b for Python strings.
RECURSIVE StrLess(_, _)
StrLess(a, b) ==
    IF a = <<>> THEN b # <<>>
    ELSE IF b = <<>> THEN FALSE
    ELSE IF a[1] = b[1] THEN StrLess(Tail(a), Tail(b))
    ELSE CodePoint(a[1]) < CodePoint(b[1])

\* sorted(list(s)) for a set of strings.
RECURSIVE Sorted(_)
Sorted(s) ==
    IF s = {} THEN <<>>
    ELSE LET m == CHOOSE x \in s : \A y \in s \ {x} : StrLess(x, y)
         IN  << m >> \o Sorted(s \ {m})

\* Lines 65-71: the entry of one category.
ExtractCategory(text, pattern) ==
    IF pattern # <<>>
    THEN LET matches == FindAll(text, 1, pattern)
             cleaned_matches ==
                 { FirstTruthy(matches[k]) :
                     k \in { j \in 1..Len(matches) : Truthy(matches[j]) } }
         IN  Sorted(cleaned_matches \ { <<>> })
    ELSE <<>>

\* Lines 62-72: the returned dict, as its items in insertion order.
extract_smart_tags_optimized(text, ts) ==
    LET patterns == COMPILED_PATTERNS(ts)
    IN  [ k \in 1..Len(patterns) |->
            [ category |-> patterns[k].category,
              tags |-> ExtractCategory(text, patterns[k].pattern) ] ]

\* No call of extract_smart_tags_optimized is under way.
TagsIdle ==
    /\ tag_config = "shipped"
    /\ tag_text = <<>>
    /\ extracted = <<>>

\* ------------------------------------------------------------------------
\* Collaborators
\* ------------------------------------------------------------------------

\* SentenceTransformer.encode for one text: a vector of the model's
\* dimension.  Only its first two components are kept (head); the model
\* itself is outside the repository, so the head is a stand-in that depends
\* on the text alone.
BackendEncode(text, dim) ==
    [ len |-> dim, head |-> << 1 + (Len(text) % 2), 1 >> ]

\* duckdb: a list value fits the column FLOAT[dim] only with exactly dim
\* elements; the cast raises a conversion error otherwise.
FitsColumn(emb, dim) == emb.len = dim

\* The rows of a buffer as stored, in order, with ids from the sequence.
RECURSIVE WithIds(_, _)
WithIds(rows, next) ==
    IF rows = <<>> THEN <<>>
    ELSE << [ id |-> next, row |-> Head(rows) ] >> \o WithIds(Tail(rows), next + 1)

NextId(st) == Len(st.rows) + 1

\* executemany(INSERT ...) when every statement succeeds.
Inserted(st, buffer) ==
    [ st EXCEPT !.rows = st.rows \o WithIds(buffer, NextId(st)) ]

\* ------------------------------------------------------------------------
\* build_database
\* ------------------------------------------------------------------------

\* Lines 124-127: header and body of a stripped section.
HeaderOf(section) ==
    LET h == FirstLine(Strip(section))
    IN  IF StartsWith(h, << "#" >>) THEN h ELSE << "#", " " >> \o h

BodyOf(section) == RestLines(Strip(section))

\* Lines 122, 129, 132: the three continue statements.
IsBlank(section) == Strip(section) = <<>>

HasTocMarker(header) == Contains(header, TocMarker)

\* Skipped without the table-of-contents test of line 129.
Skipped_NoTocTest(section) ==
    \/ IsBlank(section)
    \/ DateMatch(HeaderOf(section)) = None

Skipped(section) ==
    \/ IsBlank(section)
    \/ HasTocMarker(HeaderOf(section))
    \/ DateMatch(HeaderOf(section)) = None

\* Line 136 without clean_markdown and the cut at MAX_TEXT_LENGTH: the
\* text given to the backend.
FullText(section) == HeaderOf(section) \o << ".", " " >> \o BodyOf(section)

\* Lines 142-145; sec records which section the entry came from.
MetaOf(section, i) ==
    [ year  |-> DateMatch(HeaderOf(section))[1],
      month |-> DateMatch(HeaderOf(section))[2],
      title |-> HeaderOf(section),
      sec   |-> i ]

\* Lines 151-157 and 173-179: zip(batch_meta, embeddings) as rows.
RECURSIVE RowsOf(_, _, _)
RowsOf(metas, texts, dim) ==
    IF metas = <<>> \/ texts = <<>> THEN <<>>
    ELSE << [ year  |-> Head(metas).year,
              month |-> Head(metas).month,
              title |-> Head(metas).title,
              sec   |-> Head(metas).sec,
              emb   |-> BackendEncode(Head(texts), dim) ] >>
         \o RowsOf(Tail(metas), Tail(texts), dim)

SecsOf(rows) == [ k \in 1..Len(rows) |-> rows[k].sec ]

\* The query script before its first execution.
AppInit ==
    /\ model_cache = FALSE
    /\ con_cache = "unset"
    /\ model_loads = 0
    /\ db_connects = 0
    /\ runs = 0
    /\ query = <<>>
    /\ ui = "nothing"
    /\ results = <<>>
    /\ encode_calls = 0
    /\ sql_calls = 0
    /\ read_only = FALSE

Init ==
    /\ batch_size \in BatchSizes
    /\ insert_batch \in InsertBatches
    /\ backend_dim \in Dims
    /\ store \in { [ dim |-> d, rows |-> <<>>, index |-> FALSE ] : d \in {0} \cup Dims }
    /\ pc = "start"
    /\ embedding_dimension = 0
    /\ con = "none"
    /\ raw_sections = <<>>
    /\ idx = 1
    /\ batch_texts = <<>>
    /\ batch_meta = <<>>
    /\ buffer_rows = <<>>
    /\ log = <<>>
    /\ submitted = <<>>
    /\ embedded = <<>>
    /\ dropped = {}
    /\ AppInit
    /\ TagsIdle

\* Lines 92-101: the model is loaded and its dimension is read.
LoadModel ==
    /\ pc = "start"
    /\ embedding_dimension' = backend_dim
    /\ pc' = "connect"
    /\ UNCHANGED << tagVars, envVars, con, raw_sections, idx, batch_texts, batch_meta,
                    buffer_rows, log, histVars, appVars >>

\* Line 103.
Connect ==
    /\ pc = "connect"
    /\ con' = "open"
    /\ pc' = "init_db"
    /\ UNCHANGED << tagVars, envVars, embedding_dimension, raw_sections, idx, batch_texts,
                    batch_meta, buffer_rows, log, histVars, appVars >>

\* Line 103 when duckdb.connect raises: nothing catches it.
ConnectFails ==
    /\ pc = "connect"
    /\ pc' = "crashed"
    /\ UNCHANGED << tagVars, envVars, embedding_dimension, con, raw_sections, idx,
                    batch_texts, batch_meta, buffer_rows, log, histVars, appVars >>

\* Lines 50-60: CREATE TABLE IF NOT EXISTS creates farm_info with the given
\* dimension when it is absent and does nothing when it exists.
CreateTableIfNotExists(st, dim) ==
    IF st.dim = 0 THEN [ st EXCEPT !.dim = dim ] ELSE st

\* Lines 44-60, with the vss extension loading or not (lines 45-48 print a
\* warning and go on).
init_db(vss_ok) ==
    /\ pc = "init_db"
    /\ log' = IF vss_ok THEN log ELSE Append(log, "vss_warning")
    /\ store' = CreateTableIfNotExists(store, embedding_dimension)
    /\ pc' = "read"
    /\ UNCHANGED << tagVars, batch_size, insert_batch, backend_dim, embedding_dimension,
                    con, raw_sections, idx, batch_texts, batch_meta,
                    buffer_rows, histVars, appVars >>

\* Lines 106-119: the file is read and split.
ReadFile ==
    /\ pc = "read"
    /\ \E data \in Documents : raw_sections' = RegexSplit(data)
    /\ pc' = "loop"
    /\ UNCHANGED << tagVars, envVars, embedding_dimension, con, idx, batch_texts,
                    batch_meta, buffer_rows, log, histVars, appVars >>

\* Lines 109-111: the file is missing; the function returns.
FileNotFound ==
    /\ pc = "read"
    /\ log' = Append(log, "file_not_found")
    /\ pc' = "returned"
    /\ UNCHANGED << tagVars, envVars, embedding_dimension, con, raw_sections, idx,
                    batch_texts, batch_meta, buffer_rows, histVars, appVars >>

\* AfterBatch with the comparison of line 164 off by one (> for >=).
AfterBatch_OffByOne(buffer) ==
    IF Len(buffer) > insert_batch THEN "flush" ELSE "loop"

\* Where an iteration goes after the try/finally of lines 148-162: the
\* flush check of line 164, then the next section.
AfterBatch(buffer) ==
    IF Len(buffer) >= insert_batch THEN "flush" ELSE "loop"

\* Lines 122-132: a section that is blank, holds the table-of-contents
\* marker or has no date token is passed over by continue.
SkipSection ==
    /\ pc = "loop"
    /\ idx <= Len(raw_sections)
    /\ Skipped(raw_sections[idx])
    /\ idx' = idx + 1
    /\ UNCHANGED << tagVars, envVars, pc, embedding_dimension, con, raw_sections,
                    batch_texts, batch_meta, buffer_rows, log, histVars, appVars >>

\* Lines 133-148: the section joins the pending batch.
TakeSection ==
    /\ pc = "loop"
    /\ idx <= Len(raw_sections)
    /\ ~Skipped(raw_sections[idx])
    /\ batch_texts' = Append(batch_texts, FullText(raw_sections[idx]))
    /\ batch_meta' = Append(batch_meta, MetaOf(raw_sections[idx], idx))
    /\ IF Len(batch_texts') >= batch_size
       THEN pc' = "encode" /\ idx' = idx
       ELSE IF AfterBatch(buffer_rows) = "flush"
            THEN pc' = "flush" /\ idx' = idx
            ELSE pc' = "loop" /\ idx' = idx + 1
    /\ UNCHANGED << tagVars, envVars, embedding_dimension, con, raw_sections,
                    buffer_rows, log, histVars, appVars >>

\* Lines 149-157, 160-162: the batch is encoded and its rows are buffered.
EncodeBatch ==
    /\ pc = "encode"
    /\ LET rows == RowsOf(batch_meta, batch_texts, backend_dim)
       IN  /\ buffer_rows' = buffer_rows \o rows
           /\ embedded' = embedded \o SecsOf(rows)
           /\ pc' = AfterBatch(buffer_rows')
           /\ idx' = IF AfterBatch(buffer_rows') = "flush" THEN idx ELSE idx + 1
    /\ batch_texts' = <<>>
    /\ batch_meta' = <<>>
    /\ UNCHANGED << tagVars, envVars, embedding_dimension, con, raw_sections, log,
                    submitted, dropped, appVars >>

\* Lines 149-150, 158-162: encode raises; the except clause prints and the
\* finally clause empties the batch.
EncodeBatchFails ==
    /\ pc = "encode"
    /\ log' = Append(log, "encode_error")
    /\ dropped' = dropped \cup { batch_meta[k].sec : k \in 1..Len(batch_meta) }
    /\ batch_texts' = <<>>
    /\ batch_meta' = <<>>
    /\ pc' = AfterBatch(buffer_rows)
    /\ idx' = IF AfterBatch(buffer_rows) = "flush" THEN idx ELSE idx + 1
    /\ UNCHANGED << tagVars, envVars, embedding_dimension, con, raw_sections,
                    buffer_rows, submitted, embedded, appVars >>

\* Lines 81-87: nothing is done for an empty buffer; otherwise executemany
\* inserts every row of the buffer.  It can do so only when every embedding
\* fits the column.
flush_buffer_to_db(buffer) ==
    IF buffer = << >>
    THEN UNCHANGED << store, submitted, log >>
    ELSE /\ \A k \in 1..Len(buffer) : FitsColumn(buffer[k].emb, store.dim)
         /\ store' = Inserted(store, buffer)
         /\ submitted' = Append(submitted, buffer)
         /\ log' = log

\* Lines 83-89: executemany raises duckdb.Error (a conversion error at the
\* first embedding that does not fit the column, or a failure of the
\* engine at any row); the rows before the failing one may have been
\* inserted.  The error is printed and the function returns.
flush_buffer_to_db_fails(buffer) ==
    /\ \E n \in 0..(Len(buffer) - 1) :
          /\ \A k \in 1..n : FitsColumn(buffer[k].emb, store.dim)
          /\ store' = Inserted(store, SubSeq(buffer, 1, n))
    /\ submitted' = Append(submitted, buffer)
    /\ log' = Append(log, "flush_error")

\* Lines 164-166.
FlushInLoop ==
    /\ pc = "flush"
    /\ flush_buffer_to_db(buffer_rows)
    /\ buffer_rows' = <<>>
    /\ pc' = "loop"
    /\ idx' = idx + 1
    /\ UNCHANGED << tagVars, batch_size, insert_batch, backend_dim, embedding_dimension,
                    con, raw_sections, batch_texts, batch_meta, embedded, dropped, appVars >>

\* FlushInLoopFails without the reset of line 166: the failed buffer stays
\* and is handed to the store again by the next flush.
FlushInLoopFails_KeepsBuffer ==
    /\ pc = "flush"
    /\ flush_buffer_to_db_fails(buffer_rows)
    /\ buffer_rows' = buffer_rows
    /\ pc' = "loop"
    /\ idx' = idx + 1
    /\ UNCHANGED << tagVars, batch_size, insert_batch, backend_dim, embedding_dimension,
                    con, raw_sections, batch_texts, batch_meta, embedded, dropped, appVars >>

FlushInLoopFails ==
    /\ pc = "flush"
    /\ flush_buffer_to_db_fails(buffer_rows)
    /\ buffer_rows' = <<>>
    /\ pc' = "loop"
    /\ idx' = idx + 1
    /\ UNCHANGED << tagVars, batch_size, insert_batch, backend_dim, embedding_dimension,
                    con, raw_sections, batch_texts, batch_meta, embedded, dropped, appVars >>

\* LoopEnd going to the index build without the flush of lines 181-182.
LoopEnd_SkipsFinalFlush ==
    /\ pc = "loop"
    /\ idx > Len(raw_sections)
    /\ pc' = IF batch_texts # <<>> THEN "tail_encode" ELSE "index"
    /\ UNCHANGED << tagVars, envVars, embedding_dimension, con, raw_sections, idx,
                    batch_texts, batch_meta, buffer_rows, log, histVars, appVars >>

\* Line 121: the sections are exhausted.
LoopEnd ==
    /\ pc = "loop"
    /\ idx > Len(raw_sections)
    /\ pc' = IF batch_texts # <<>> THEN "tail_encode"
             ELSE IF buffer_rows # <<>> THEN "final_flush" ELSE "index"
    /\ UNCHANGED << tagVars, envVars, embedding_dimension, con, raw_sections, idx,
                    batch_texts, batch_meta, buffer_rows, log, histVars, appVars >>

\* Lines 171-179: the remaining partial batch is encoded.  The lists
\* batch_texts and batch_meta are not reset here.
TailEncode ==
    /\ pc = "tail_encode"
    /\ LET rows == RowsOf(batch_meta, batch_texts, backend_dim)
       IN  /\ buffer_rows' = buffer_rows \o rows
           /\ embedded' = embedded \o SecsOf(rows)
           /\ pc' = IF buffer_rows' # <<>> THEN "final_flush" ELSE "index"
    /\ UNCHANGED << tagVars, envVars, embedding_dimension, con, raw_sections, idx,
                    batch_texts, batch_meta, log, submitted, dropped, appVars >>

\* Line 172 when encode raises: no try statement encloses it, the exception
\* leaves build_database.
TailEncodeFails ==
    /\ pc = "tail_encode"
    /\ dropped' = dropped \cup { batch_meta[k].sec : k \in 1..Len(batch_meta) }
    /\ pc' = "crashed"
    /\ UNCHANGED << tagVars, envVars, embedding_dimension, con, raw_sections, idx,
                    batch_texts, batch_meta, buffer_rows, log, submitted,
                    embedded, appVars >>

\* Lines 181-182; buffer_rows is not reset after this flush.
FinalFlush ==
    /\ pc = "final_flush"
    /\ flush_buffer_to_db(buffer_rows)
    /\ pc' = "index"
    /\ UNCHANGED << tagVars, batch_size, insert_batch, backend_dim, embedding_dimension,
                    con, raw_sections, idx, batch_texts, batch_meta,
                    buffer_rows, embedded, dropped, appVars >>

FinalFlushFails ==
    /\ pc = "final_flush"
    /\ flush_buffer_to_db_fails(buffer_rows)
    /\ pc' = "index"
    /\ UNCHANGED << tagVars, batch_size, insert_batch, backend_dim, embedding_dimension,
                    con, raw_sections, idx, batch_texts, batch_meta,
                    buffer_rows, embedded, dropped, appVars >>

\* Lines 184-187: the HNSW index is created and success is printed.
BuildIndex ==
    /\ pc = "index"
    /\ store' = [ store EXCEPT !.index = TRUE ]
    /\ log' = Append(log, "success")
    /\ pc' = "close"
    /\ UNCHANGED << tagVars, batch_size, insert_batch, backend_dim, embedding_dimension,
                    con, raw_sections, idx, batch_texts, batch_meta,
                    buffer_rows, histVars, appVars >>

\* Lines 185-189: CREATE INDEX raises; the failure is printed.
BuildIndexFails ==
    /\ pc = "index"
    /\ log' = Append(log, "index_failed")
    /\ pc' = "close"
    /\ UNCHANGED << tagVars, envVars, embedding_dimension, con, raw_sections, idx,
                    batch_texts, batch_meta, buffer_rows, histVars, appVars >>

\* Line 191, and the return: the frame and its locals are gone.
Close ==
    /\ pc = "close"
    /\ con' = "closed"
    /\ pc' = "done"
    /\ UNCHANGED << tagVars, envVars, embedding_dimension, raw_sections, idx,
                    batch_texts, batch_meta, buffer_rows, log, histVars, appVars >>

Next ==
    \/ LoadModel
    \/ Connect
    \/ ConnectFails
    \/ \E vss_ok \in BOOLEAN : init_db(vss_ok)
    \/ ReadFile
    \/ FileNotFound
    \/ SkipSection
    \/ TakeSection
    \/ EncodeBatch
    \/ EncodeBatchFails
    \/ FlushInLoop
    \/ FlushInLoopFails
    \/ LoopEnd
    \/ TailEncode
    \/ TailEncodeFails
    \/ FinalFlush
    \/ FinalFlushFails
    \/ BuildIndex
    \/ BuildIndexFails
    \/ Close

Spec == Init /\ [][Next]_vars

\* ------------------------------------------------------------------------
\* The query script (src/app.py)
\* ------------------------------------------------------------------------

\* Executions of the script explored in one session.
MaxRuns == 2

\* Rows of the store a query session opens.
MaxRows == 6

\* Line 66: the literal of the cast ?::FLOAT[1024].
QUERY_CAST_DIM == 1024

\* Line 69: LIMIT 5.
TOP_K == 5

\* Line 57: the shortest query that is searched.
MIN_QUERY_LEN == 2

\* What the text input may hold: nothing, one character, two, three.
Queries == { << >>, << "a" >>, << "a", "b" >>, << "a", "b", "c" >> }

\* First two components of the embeddings found in a store: three
\* directions, so that stores of more than three rows hold rows of equal
\* similarity to any query.
RowHeads == << << 1, 0 >>, << 0, 1 >>, << 1, 1 >> >>

Dot(a, b) == a[1] * b[1] + a[2] * b[2]

\* array_cosine_similarity(a, q) >= array_cosine_similarity(b, q) for
\* vectors without negative components: Dot(a,q)/|a| >= Dot(b,q)/|b|,
\* compared by squares.
CosGE(a, b, q) ==
    Dot(a, q) * Dot(a, q) * Dot(b, b) >= Dot(b, q) * Dot(b, q) * Dot(a, a)

\* Lines 65-70: ORDER BY score DESC LIMIT k.  The statement names no second
\* sort key, so rows of equal score come in whatever order the engine
\* yields: every order is possible.
RECURSIVE Rankings(_, _, _)
Rankings(rows, q, k) ==
    IF k = 0 \/ rows = {} THEN { << >> }
    ELSE LET best == { r \in rows :
                         \A o \in rows : CosGE(r.row.emb.head, o.row.emb.head, q.head) }
         IN  UNION { { << r.id >> \o t : t \in Rankings(rows \ {r}, q, k - 1) }
                     : r \in best }

Range(f) == { f[x] : x \in DOMAIN f }

\* Lines 65-73: the statement binds when farm_info exists and its column
\* has the size of the cast; array_cosine_similarity refuses arrays of
\* different sizes.
StatementBinds(st) == st.dim # 0 /\ st.dim = QUERY_CAST_DIM

\* The parameter casts to FLOAT[1024] only with exactly 1024 elements.
ParameterCasts(qv) == FitsColumn(qv, QUERY_CAST_DIM)

\* The statement returns rows: it binds and the cast succeeds.  Over an
\* empty table the cast may never be evaluated, so the statement may also
\* return (nothing) with a parameter that does not cast.
StatementRuns(st, qv) ==
    /\ StatementBinds(st)
    /\ ParameterCasts(qv) \/ st.rows = << >>

\* The statement raises.
StatementRaises(st, qv) == ~StatementBinds(st) \/ ~ParameterCasts(qv)

\* TooShort with the bound of line 57 off by one: only the empty query is
\* too short.
TooShort_OffByOne(q) == Len(q) < MIN_QUERY_LEN - 1

\* Line 57.
TooShort(q) == Len(q) < MIN_QUERY_LEN

\* A stored row as a query session finds it.
StoredRow(i, h, dim) ==
    [ id  |-> i,
      row |-> [ year |-> 2024, month |-> 5, title |-> << "#" >>, sec |-> i,
                emb |-> [ len |-> dim, head |-> h ] ] ]

\* The stores an ingestion run leaves behind: a table of the dimension it
\* was created with, holding rows of that dimension (rows of another
\* dimension cannot be inserted).  Row i points in direction i + shift.
QueryStores ==
    { [ dim   |-> d,
        rows  |-> [ i \in 1..n |-> StoredRow(i, RowHeads[((i + shift) % 3) + 1], d) ],
        index |-> TRUE ]
        : d \in Dims, n \in 0..MaxRows, shift \in 0..2 }

\* The state a query session starts in: an ingestion run has finished with
\* the backend's dimension; the store exists with some dimension.
InitQuery ==
    /\ batch_size = BATCH_SIZE
    /\ insert_batch = DB_INSERT_BATCH
    /\ backend_dim \in Dims
    /\ store \in QueryStores
    /\ store.rows # <<>> => store.dim = backend_dim
    /\ pc = "done"
    /\ embedding_dimension = backend_dim
    /\ con = "closed"
    /\ raw_sections = <<>>
    /\ idx = 1
    /\ batch_texts = <<>>
    /\ batch_meta = <<>>
    /\ buffer_rows = <<>>
    /\ log = <<>>
    /\ submitted = <<>>
    /\ embedded = <<>>
    /\ dropped = {}
    /\ AppInit
    /\ TagsIdle

\* Lines 11-20 and 46-47: load_model under st.cache_resource; the body runs
\* when the cache holds no entry.
load_model ==
    /\ model_loads' = IF model_cache THEN model_loads ELSE model_loads + 1
    /\ model_cache' = TRUE

\* get_db_connection opening the store without read_only.
get_db_connection_ReadWrite ==
    /\ con_cache # "none"
    /\ db_connects' = IF con_cache = "unset" THEN db_connects + 1 ELSE db_connects
    /\ con_cache' = "open"
    /\ read_only' = FALSE

\* Lines 23-36 and 48: get_db_connection under st.cache_resource, when the
\* connection can be opened.
get_db_connection ==
    /\ con_cache # "none"
    /\ db_connects' = IF con_cache = "unset" THEN db_connects + 1 ELSE db_connects
    /\ con_cache' = "open"
    /\ read_only' = TRUE

\* get_db_connection failing without its result being kept: the body runs
\* at every execution.
get_db_connection_fails_Uncached ==
    /\ con_cache # "open"
    /\ db_connects' = db_connects + 1
    /\ con_cache' = "unset"
    /\ UNCHANGED read_only

\* Lines 37-39: connecting or loading vss raises; the error is shown and
\* None is returned, which the cache keeps.
get_db_connection_fails ==
    /\ con_cache # "open"
    /\ db_connects' = IF con_cache = "unset" THEN db_connects + 1 ELSE db_connects
    /\ con_cache' = "none"
    /\ UNCHANGED read_only

\* Lines 11-20 and 46: the body of load_model raises (the model cannot be
\* loaded).  st.cache_resource keeps returned values only, so no entry is
\* made; the exception ends the execution and is displayed.
RunLoadFails ==
    /\ runs < MaxRuns
    /\ ~model_cache
    /\ runs' = runs + 1
    /\ model_loads' = model_loads + 1
    /\ ui' = "exception"
    /\ results' = <<>>
    /\ UNCHANGED << tagVars, envVars, runVars, histVars, model_cache, con_cache,
                    db_connects, query, encode_calls, sql_calls, read_only >>

\* Lines 46-51: con is None, st.stop() ends the execution.
RunStopped ==
    /\ runs < MaxRuns
    /\ runs' = runs + 1
    /\ load_model
    /\ get_db_connection_fails
    /\ ui' = "db_error"
    /\ results' = <<>>
    /\ UNCHANGED << tagVars, envVars, runVars, histVars, query, encode_calls, sql_calls >>

\* Line 56: the text input is empty; nothing is displayed.
RunNoQuery ==
    /\ runs < MaxRuns
    /\ runs' = runs + 1
    /\ load_model
    /\ get_db_connection
    /\ query' = << >>
    /\ ui' = "nothing"
    /\ results' = <<>>
    /\ UNCHANGED << tagVars, envVars, runVars, histVars, encode_calls, sql_calls >>

\* Lines 57-58: the warning for a query that is too short.
RunShortQuery(q) ==
    /\ runs < MaxRuns
    /\ runs' = runs + 1
    /\ load_model
    /\ get_db_connection
    /\ q # << >>
    /\ TooShort(q)
    /\ query' = q
    /\ ui' = "warning"
    /\ results' = <<>>
    /\ UNCHANGED << tagVars, envVars, runVars, histVars, encode_calls, sql_calls >>

\* Lines 59-86: the query is encoded and ranked.
RunQuery(q) ==
    /\ runs < MaxRuns
    /\ runs' = runs + 1
    /\ load_model
    /\ get_db_connection
    /\ q # << >>
    /\ ~TooShort(q)
    /\ query' = q
    /\ encode_calls' = encode_calls + 1
    /\ sql_calls' = sql_calls + 1
    /\ StatementRuns(store, BackendEncode(q, backend_dim))
    /\ results' \in Rankings(Range(store.rows), BackendEncode(q, backend_dim), TOP_K)
    /\ ui' = IF results' = <<>> THEN "info" ELSE "results"
    /\ UNCHANGED << tagVars, envVars, runVars, histVars >>

\* Lines 72-73, 88-89: the statement raises and the error is shown.
RunQueryError(q) ==
    /\ runs < MaxRuns
    /\ runs' = runs + 1
    /\ load_model
    /\ get_db_connection
    /\ q # << >>
    /\ ~TooShort(q)
    /\ query' = q
    /\ encode_calls' = encode_calls + 1
    /\ sql_calls' = sql_calls + 1
    /\ StatementRaises(store, BackendEncode(q, backend_dim))
    /\ results' = <<>>
    /\ ui' = "error"
    /\ UNCHANGED << tagVars, envVars, runVars, histVars >>

NextQuery ==
    \/ RunLoadFails
    \/ RunStopped
    \/ RunNoQuery
    \/ \E q \in Queries : RunShortQuery(q)
    \/ \E q \in Queries : RunQuery(q)
    \/ \E q \in Queries : RunQueryError(q)

SpecQuery == InitQuery /\ [][NextQuery]_vars

\* ------------------------------------------------------------------------
\* Tag extraction as a specification: a process configured with a
\* dictionary calls extract_smart_tags_optimized on a text.
\* ------------------------------------------------------------------------

InitTags ==
    /\ batch_size = BATCH_SIZE
    /\ insert_batch = DB_INSERT_BATCH
    /\ backend_dim = QUERY_CAST_DIM
    /\ store = [ dim |-> 0, rows |-> <<>>, index |-> FALSE ]
    /\ pc = "start"
    /\ embedding_dimension = 0
    /\ con = "none"
    /\ raw_sections = <<>>
    /\ idx = 1
    /\ batch_texts = <<>>
    /\ batch_meta = <<>>
    /\ buffer_rows = <<>>
    /\ log = <<>>
    /\ submitted = <<>>
    /\ embedded = <<>>
    /\ dropped = {}
    /\ AppInit
    /\ tag_config \in TagConfigs
    /\ tag_text \in Texts
    /\ extracted = <<>>

\* Lines 62-72, as called at line 135.
ExtractTags ==
    /\ extracted' = extract_smart_tags_optimized(tag_text, tag_sets)
    /\ UNCHANGED << envVars, runVars, histVars, appVars, tag_config, tag_text >>

NextTags == ExtractTags

SpecTags == InitTags /\ [][NextTags]_vars

\* ------------------------------------------------------------------------
\* Helpers of the properties
\* ------------------------------------------------------------------------

RECURSIVE Flatten(_)
Flatten(ss) == IF ss = <<>> THEN <<>> ELSE Head(ss) \o Flatten(Tail(ss))

NoDup(s) == \A i, j \in 1..Len(s) : s[i] = s[j] => i = j

Increasing(s) == \A i, j \in 1..Len(s) : i < j => s[i] < s[j]

IsPrefix(s, t) == Len(s) <= Len(t) /\ SubSeq(t, 1, Len(s)) = s

\* The sections of every buffer handed to the store, in order of submission.
SubmittedSecs == SecsOf(Flatten(submitted))

\* The run has left the loop and the encode of the remainder behind.
PastEncoding == pc \in { "final_flush", "index", "close", "done" }

\* ------------------------------------------------------------------------
\* C1
\* ------------------------------------------------------------------------

\* C1: every record buffered for persistence has a month in 1..12; a header
\* whose date token carries a month outside 1..12 is never accepted.
C1_BufferedMonthInRange ==
    \A k \in 1..Len(buffer_rows) : buffer_rows[k].month \in 1..12

\* ------------------------------------------------------------------------
\* C2
\* ------------------------------------------------------------------------

\* C2: after the backend failed on a batch, none of the batch's records is
\* buffered, pending or stored, and the run goes on (it has not been ended
\* by the exception), for the encode in the loop and the encode of the
\* remaining partial batch alike.
C2_EncodeFailureDropsBatchAndContinues ==
    /\ \A k \in 1..Len(buffer_rows) : buffer_rows[k].sec \notin dropped
    /\ \A k \in 1..Len(store.rows) : store.rows[k].row.sec \notin dropped
    /\ \A k \in 1..Len(batch_meta) : batch_meta[k].sec \notin dropped
    /\ dropped # {} => pc # "crashed"

\* ------------------------------------------------------------------------
\* C3
\* ------------------------------------------------------------------------

FlushFailedStep ==
    /\ submitted' # submitted
    /\ Len(store'.rows) < Len(store.rows) + Len(buffer_rows)

\* C4: a failed flush is reported and not retried: the step prints the
\* error, leaves the rows stored before it unchanged, discards the buffer
\* when the loop goes on (or proceeds to the index build after the final
\* flush), the run is not ended by it, and no record is ever handed to the
\* store a second time.
C4_FailedFlushReportedNotRetried ==
    [][ /\ FlushFailedStep =>
            /\ log' = Append(log, "flush_error")
            /\ IsPrefix(store.rows, store'.rows)
            /\ submitted' = Append(submitted, buffer_rows)
            /\ pc' \in { "loop", "index" }
            /\ pc' = "loop" => buffer_rows' = <<>> /\ idx' = idx + 1
        /\ NoDup(SecsOf(Flatten(submitted'))) ]_vars

\* A run whose first flush failed, which then stored the rows of a later
\* flush and finished.
C4_Witness ==
    /\ pc = "done"
    /\ Len(submitted) >= 2
    /\ \E k \in 1..Len(log) : log[k] = "flush_error"
    /\ store.rows # <<>>
    /\ store.rows[1].row.sec # submitted[1][1].sec

\* ------------------------------------------------------------------------
\* C5
\* ------------------------------------------------------------------------

\* C5: init_db with dimension d2 on a store that exists with dimension
\* d1 # d2 is surfaced as an error: the run never goes past init_db with the
\* store at d1 while it works with d2.
C5_DimensionConflictSurfaced ==
    pc \in { "read", "loop", "encode", "flush", "tail_encode", "final_flush",
             "index", "close", "done", "returned" }
        => store.dim = embedding_dimension

\* ------------------------------------------------------------------------
\* C6
\* ------------------------------------------------------------------------

\* An embedding whose length differs from the store's dimension was handed
\* to the store.
MismatchedWrite ==
    \E b \in 1..Len(submitted) : \E k \in 1..Len(submitted[b]) :
        submitted[b][k].emb.len # store.dim

\* C6: a write of an embedding whose length differs from the store's
\* dimension is fatal: no such vector is stored, and the run ends as a
\* failure there instead of going on to further sections, the index build
\* and the success report.
C6_MismatchedWriteIsFatal ==
    /\ \A k \in 1..Len(store.rows) : store.rows[k].row.emb.len = store.dim
    /\ MismatchedWrite =>
          /\ pc = "crashed"
          /\ \A k \in 1..Len(log) : log[k] # "success"

\* ------------------------------------------------------------------------
\* C7
\* ------------------------------------------------------------------------

\* The last execution of the script sent the ranking statement.
Ranked == ui \in { "results", "info", "error" }

\* C7: whatever dimension the backend reports, the dimension the query path
\* uses for the query vector is the one ingestion declared the embedding
\* column with, and a query whose vector differs in dimension from the
\* stored vectors is refused, not ranked.
C7_QueryDimensionIsIngestionDimension ==
    Ranked =>
        /\ QUERY_CAST_DIM = embedding_dimension
        /\ BackendEncode(query, backend_dim).len # store.dim => ui = "error"

\* ------------------------------------------------------------------------
\* C8
\* ------------------------------------------------------------------------

\* An execution of the script that got past the connection check with a
\* text input of fewer than 2 characters.
ShortQueryRun ==
    /\ runs' = runs + 1
    /\ con_cache' = "open"
    /\ Len(query') < 2

\* C8 as claimed: a query shorter than 2 characters is rejected with the
\* warning, and neither encode nor the store is called for it.
C8_ShortQueryWarnedAndNotEmbedded ==
    [][ ShortQueryRun =>
            /\ ui' = "warning"
            /\ encode_calls' = encode_calls
            /\ sql_calls' = sql_calls ]_vars

\* C8 as amended: a non-empty query shorter than 2 characters is rejected
\* with the warning, the empty input displays nothing, and for neither is
\* encode or the store called.
C8_ShortQueryNotEmbedded ==
    [][ ShortQueryRun =>
            /\ query' # << >> => ui' = "warning"
            /\ query' = << >> => ui' = "nothing"
            /\ encode_calls' = encode_calls
            /\ sql_calls' = sql_calls ]_vars

\* Two executions with too short an input, the last of one character: the
\* warning is shown and encode was never called.
C8_Witness ==
    /\ runs = 2
    /\ Len(query) = 1
    /\ ui = "warning"
    /\ encode_calls = 0
    /\ sql_calls = 0

\* ------------------------------------------------------------------------
\* C9
\* ------------------------------------------------------------------------

\* The embedding head of the stored row with the given id.
HeadOfId(i) ==
    (CHOOSE r \in Range(store.rows) : r.id = i).row.emb.head

\* C9: a ranking holds at most k = 5 records in descending order of cosine
\* similarity, records of equal similarity in ascending order of id (so
\* that two calls return the same sequence).
C9_RankingOrderedTiesById ==
    ui = "results" =>
        /\ Len(results) <= TOP_K
        /\ \A i, j \in 1..Len(results) : i < j =>
              LET q == BackendEncode(query, backend_dim).head
              IN  /\ CosGE(HeadOfId(results[i]), HeadOfId(results[j]), q)
                  /\ CosGE(HeadOfId(results[j]), HeadOfId(results[i]), q)
                        => results[i] < results[j]

\* ------------------------------------------------------------------------
\* C10
\* ------------------------------------------------------------------------

\* The header of a section as the claim speaks of it: its first line.
HeaderLine(section) == FirstLine(Strip(section))

\* The line contains a [YYYY-MM token.
HasDateToken(line) == \E i \in 1..Len(line) : DateAt(line, i)

\* The sections, by position, whose header holds a date token and no
\* table-of-contents marker, among those from position first on.
DatedSections(first) ==
    { i \in first..Len(raw_sections) :
        /\ HasDateToken(HeaderLine(raw_sections[i]))
        /\ ~Contains(HeaderLine(raw_sections[i]), TocMarker) }

\* What C10 says of every section, with the sections that yield a record
\* given as a set of positions.
OneRecordPerSection(yielding) ==
    /\ NoDup(embedded)
    /\ \A k \in 1..Len(embedded) : embedded[k] \in yielding
    /\ dropped \subseteq yielding
    /\ (PastEncoding /\ dropped = {}) => Range(embedded) = yielding
    /\ (dropped = {} /\ raw_sections # <<>>) =>
          /\ pc # "crashed"
          /\ \A k \in 1..Len(log) : log[k] # "encode_error"

\* C10 as claimed: at most one record per section and, without an embedding
\* failure, exactly one for each section whose header holds a date token
\* and no table-of-contents marker; the other sections and the leading
\* preamble (the text before the first delimiter, raw_sections[1]) yield
\* none and no error, and the later sections are processed all the same.
C10_OneRecordPerDatedSectionPreambleNone ==
    OneRecordPerSection(DatedSections(2))

\* C10 as amended: the same, with the text before the first delimiter
\* treated like every other section.
C10_OneRecordPerDatedSection ==
    OneRecordPerSection(DatedSections(1))

\* A finished run without embedding failure over a document whose opening
\* text is a dated header, followed by the table of contents and a dated
\* section: records for the first and the third.
C10_Witness ==
    /\ pc = "done"
    /\ dropped = {}
    /\ Len(raw_sections) = 3
    /\ Contains(HeaderLine(raw_sections[2]), TocMarker)
    /\ embedded = << 1, 3 >>

\* ------------------------------------------------------------------------
\* C11
\* ------------------------------------------------------------------------

\* The entry of a category in a returned dict.
EntryOf(result, category) ==
    result[CHOOSE k \in 1..Len(result) : result[k].category = category].tags

\* The call has returned.
Returned == extracted # <<>>

\* The character c stands on its own somewhere in the text: no Hangul
\* syllable right before it, and right after it, or after one particle
\* following it, the text ends or a character that is no Hangul syllable
\* comes.
StandsAlone(text, c) ==
    \E i \in 1..Len(text) :
        /\ text[i] = c
        /\ (i = 1 \/ ~IsHangul(text[i - 1]))
        /\ \/ i = Len(text)
           \/ ~IsHangul(text[i + 1])
           \/ /\ text[i + 1] \in Range(PARTICLES)
              /\ (i + 1 = Len(text) \/ ~IsHangul(text[i + 2]))

\* The keywords of one character of a list.
OneCharKeywords(tags) == { t \in Range(tags) : Len(t) = 1 }

\* C11: a keyword of one character is in the entry of its category exactly
\* when it stands on its own in the text (not right after a Hangul
\* syllable; followed, directly or after one particle, by the end of the
\* text or a character that is no Hangul syllable), and no entry holds a
\* one-character keyword with a particle attached.
C11_OneCharKeywordOnlyStandalone ==
    Returned =>
        \A k \in 1..Len(tag_sets) :
            /\ \A t \in OneCharKeywords(tag_sets[k].tags) :
                  t \in Range(EntryOf(extracted, tag_sets[k].category))
                      <=> StandsAlone(tag_text, t[1])
            /\ \A t \in Range(EntryOf(extracted, tag_sets[k].category)) :
                  ~(/\ Len(t) = 2
                    /\ << t[1] >> \in OneCharKeywords(tag_sets[k].tags)
                    /\ t[2] \in Range(PARTICLES))

\* "SO" followed by the particle "NEUN" and a blank is reported as "SO".
C11_Witness ==
    /\ tag_sets = TAG_SETS
    /\ tag_text = << "SO", "NEUN", " " >>
    /\ Returned
    /\ EntryOf(extracted, "crop") = << << "SO" >> >>

\* "SO" inside the word "MI" "SO" "NEUN" is not reported.
C11_WitnessInsideWord ==
    /\ tag_sets = TAG_SETS
    /\ tag_text = << "MI", "SO", "NEUN" >>
    /\ Returned
    /\ EntryOf(extracted, "crop") = <<>>

\* ------------------------------------------------------------------------
\* C12
\* ------------------------------------------------------------------------

\* The sequence with its elements at i and j exchanged.
Swap(s, i, j) ==
    [ k \in 1..Len(s) |-> IF k = i THEN s[j] ELSE IF k = j THEN s[i] ELSE s[k] ]

\* The sequence in the opposite order.
Reverse(s) == [ k \in 1..Len(s) |-> s[Len(s) + 1 - k] ]

\* The keyword begins with a character of the text; any other keyword
\* matches nowhere in the text, wherever it is listed.
CanStart(text, keyword) == \E i \in 1..Len(text) : text[i] = keyword[1]

\* The keyword lists with the same keywords as tags in another order: the
\* opposite order (every pair of keywords exchanged), and each exchange of
\* two keywords that begin with a character of the text.
KeywordOrders(text, tags) ==
    { Reverse(tags) } \cup
    { Swap(tags, ij[1], ij[2]) :
        ij \in { p \in (1..Len(tags)) \X (1..Len(tags)) :
                   /\ p[1] < p[2]
                   /\ CanStart(text, tags[p[1]])
                   /\ CanStart(text, tags[p[2]]) } }

\* The dictionary with the keywords of its k-th category listed as given.
WithKeywords(ts, k, tags) ==
    [ ts EXCEPT ![k] = [ category |-> ts[k].category, tags |-> tags ] ]

\* The dictionaries that list the keywords of one category of ts in
\* another order.
KeywordsRelisted(text, ts) ==
    UNION { { WithKeywords(ts, k, tags) : tags \in KeywordOrders(text, ts[k].tags) } :
            k \in 1..Len(ts) }

\* C12: extracting again from the same text returns the same dict; with
\* the keywords of a category listed in another order every entry is the
\* same; with the categories listed in another order (the opposite one, or
\* two neighbours exchanged) every category still has the same entry.
C12_IdempotentAndOrderIndependent ==
    Returned =>
        /\ extract_smart_tags_optimized(tag_text, tag_sets) = extracted
        /\ \A ts \in KeywordsRelisted(tag_text, tag_sets) :
              extract_smart_tags_optimized(tag_text, ts) = extracted
        /\ extract_smart_tags_optimized(tag_text, Reverse(tag_sets))
              = Reverse(extracted)
        /\ \A i \in 1..(Len(tag_sets) - 1) :
              extract_smart_tags_optimized(tag_text, Swap(tag_sets, i, i + 1))
                  = Swap(extracted, i, i + 1)

\* A text that begins with the keyword "BAE" "CHU", whose first syllable is
\* the keyword "BAE", followed by the keyword "SO": three keywords of crop
\* begin with a character of the text, and each pair of them is exchanged.
C12_Witness ==
    /\ tag_sets = TAG_SETS
    /\ tag_text = << "BAE", "CHU", "SO" >>
    /\ Returned
    /\ << "BAE", "CHU" >> \in Range(EntryOf(extracted, "crop"))

\* ------------------------------------------------------------------------
\* C13
\* ------------------------------------------------------------------------

\* The list is in strictly increasing order of Python strings, hence
\* sorted and free of duplicates.
StrictlySorted(list) ==
    \A i, j \in 1..Len(list) : i < j => StrLess(list[i], list[j])

\* C13: the returned dict has one entry for each category of the
\* dictionary; every entry is a sorted list without duplicates whose
\* elements are keywords of that category (so never the empty string and
\* never a keyword with a particle attached); a category that lists no
\* keyword has the empty list.
C13_EntriesAreSortedKeywords ==
    Returned =>
        /\ Len(extracted) = Len(tag_sets)
        /\ \A k \in 1..Len(tag_sets) :
              /\ extracted[k].category = tag_sets[k].category
              /\ StrictlySorted(extracted[k].tags)
              /\ Range(extracted[k].tags) \subseteq Range(tag_sets[k].tags)
              /\ << >> \notin Range(extracted[k].tags)
              /\ tag_sets[k].tags = << >> => extracted[k].tags = << >>

\* ------------------------------------------------------------------------
\* C14
\* ------------------------------------------------------------------------

\* C14: no step of the query script changes the store (its table, its rows
\* or its index), whatever the query, and a connection the script holds
\* was opened read-only.
C14_QueryPathLeavesStoreUnchanged ==
    [][ /\ store' = store
        /\ con_cache' = "open" => read_only' ]_vars

\* An accepted query was ranked against a store with rows and a too short
\* one followed, over the read-only connection.
C14_Witness ==
    /\ runs = 2
    /\ sql_calls = 1
    /\ ui = "warning"
    /\ store.rows # <<>>
    /\ con_cache = "open"
    /\ read_only

\* ------------------------------------------------------------------------
\* C15
\* ------------------------------------------------------------------------

\* C15 as stated: over all executions of the script the body of load_model
\* and the body of get_db_connection each run at most once.
C15_BodiesRunOnce ==
    /\ model_loads <= 1
    /\ db_connects <= 1

\* C15, amended: once a body has returned, it never runs again and the
\* cached value stays (the model; the connection, or None after a failed
\* connection), so each handle is constructed at most once; the body of
\* get_db_connection runs at most once in all.
C15_ConstructedAtMostOnce ==
    [][ /\ model_cache => model_cache' /\ model_loads' = model_loads
        /\ con_cache # "unset" => con_cache' = con_cache /\ db_connects' = db_connects
        /\ db_connects' <= 1 ]_vars

\* The script ran twice with the model and the connection served from the
\* cache the second time.
C15_Witness ==
    /\ runs = 2
    /\ model_cache
    /\ con_cache = "open"
    /\ model_loads = 1
    /\ db_connects = 1
    /\ sql_calls = 2

\* ------------------------------------------------------------------------
\* C16
\* ------------------------------------------------------------------------

\* The ingestion run has reported a failure of its start: the vss extension
\* did not load, or the source document is missing.
StartupFailureReported ==
    "vss_warning" \in Range(log) \/ "file_not_found" \in Range(log)

\* C16: after a failure at startup nothing more happens.  In ingestion,
\* once the failure of the vss extension or the missing document is
\* reported the run has ended, and nothing was embedded, written or
\* indexed; in the query script, when the connection failed (None is
\* cached) the error is displayed and neither encode nor the ranking
\* statement was ever called.
C16_StartupFailureIsFatal ==
    /\ StartupFailureReported =>
          /\ pc \in { "returned", "crashed" }
          /\ embedded = <<>>
          /\ submitted = <<>>
          /\ ~store.index
    /\ con_cache = "none" =>
          /\ ui = "db_error"
          /\ encode_calls = 0
          /\ sql_calls = 0

\* ------------------------------------------------------------------------
\* C17
\* ------------------------------------------------------------------------

\* The index builds attempted so far: each prints its outcome once.
IndexAttempts(printed) ==
    Cardinality({ k \in 1..Len(printed) : printed[k] \in { "success", "index_failed" } })

\* C17: the index build is attempted at most once, and once when the run is
\* past the indexing step; when it is attempted every record built so far
\* has been handed to a flush; after it nothing is embedded, buffered or
\* written.
C17_IndexOnceAfterLastFlush ==
    [][ /\ IndexAttempts(log') <= 1
        /\ pc' \in { "close", "done" } => IndexAttempts(log') = 1
        /\ IndexAttempts(log') > IndexAttempts(log) =>
              Range(embedded) \subseteq Range(SubmittedSecs)
        /\ IndexAttempts(log) = 1 =>
              /\ embedded' = embedded
              /\ buffer_rows' = buffer_rows
              /\ submitted' = submitted
              /\ store'.rows = store.rows ]_vars

\* A run ended after its only index build, with a final flush of the one
\* row left in the buffer before it.
C17_Witness ==
    /\ pc = "done"
    /\ IndexAttempts(log) = 1
    /\ Len(buffer_rows) = 1
    /\ submitted # <<>>
    /\ submitted[Len(submitted)] = buffer_rows
    /\ store.rows # <<>>

\* ------------------------------------------------------------------------
\* C18
\* ------------------------------------------------------------------------

\* The records of the batch that are still to be embedded.
PendingBatch(metas, done) ==
    SelectSeq(metas, LAMBDA m : m.sec \notin Range(done))

\* The step is an encode attempt: records were embedded, or an encode
\* raised and its batch is counted as dropped.
EncodeAttempted == embedded' # embedded \/ dropped' # dropped

\* The bounds of C18 on the batch and on the buffer.
BatchAndBufferBounded ==
    /\ Len(batch_texts) <= batch_size
    /\ Len(batch_texts) = Len(batch_meta)
    /\ Len(buffer_rows) <= insert_batch + batch_size - 1

\* C18: the batch never holds more texts than the batch size, batch_texts
\* and batch_meta have the same length, the buffer never holds more than
\* the flush threshold plus the batch size minus one rows, and after every
\* encode attempt, successful or not, no record of the batch is left to be
\* embedded.
C18_BatchAndBufferBounded ==
    [][ /\ BatchAndBufferBounded'
        /\ EncodeAttempted => PendingBatch(batch_meta', embedded') = <<>> ]_vars

\* ------------------------------------------------------------------------
\* C19
\* ------------------------------------------------------------------------

\* build_database has returned or was left by an exception.
RunOver == pc \in { "done", "returned", "crashed" }

\* C19: when build_database is over, by its normal end, by the return for
\* the missing file or by an exception, the connection it opened is
\* closed.
C19_ConnectionClosedOnEveryExit ==
    RunOver => con # "open"

====
